---- MODULE Spec2Model ----
(***************************************************************************)
(* Traversal combinators of pstd.hpp (each, until, remove, find, pop)      *)
(* over a caller-owned container, modelled as a sequence of small values.  *)
(* A position (iterator) is a 0-based index: 0 is begin(), Len(c) is       *)
(* end(), and the element a position refers to is c[position + 1].         *)
(***************************************************************************)
EXTENDS Integers, Sequences, FiniteSets, TLC

\* ---- bounds -------------------------------------------------------------
MaxLen == 3
MaxVal == 2

Vals == 1..MaxVal
Preds == SUBSET Vals                 \* a predicate is the set of values it accepts
Conts == UNION {[1..n -> Vals] : n \in 0..MaxLen}

VARIABLES
  cont,     \* the caller's container
  ids,      \* for each element of cont, its index in orig (which occurrence it is)
  param,    \* the by-value copy `cont` of each / until (<<>> otherwise)
  orig,     \* the caller's container when the current call was entered
  op,       \* the combinator being executed, "none" between calls
  arg,      \* its second argument: target value, or predicate
  iter,     \* the loop's position
  pc,       \* "idle", "loop", "incr", "body", "done", "aborted"
  calls,    \* arguments the visitor / predicate has been invoked with
  ret,      \* the returned value (optional as <<>> or <<v>>; bool for until)
  prev      \* the previous completed call: [op, arg, ret]

vars == <<cont, ids, param, orig, op, arg, iter, pc, calls, ret, prev>>

\* ---- helpers ------------------------------------------------------------

\* *iter
Deref(c, i) == c[i + 1]

\* cont.erase(iter): the container without the element at position i;
\* the returned position is i itself (the element that followed).
Erase(c, i) == SubSeq(c, 1, i) \o SubSeq(c, i + 2, Len(c))

\* func(*iter) for a predicate
Holds(p, v) == v \in p

\* Outcomes of `--cont.erase(iter)` given the position erase returned.
\* Decrementing begin() is undefined; the builds of this code produce:
\*   the position one before begin, from which ++ returns to begin
\*     (unchecked vector / list / deque),
\*   a trap (checked iterators),
\*   the position unchanged (node-based ordered containers whose begin()
\*     is the root; the following ++ then steps over a live element).
Decrement(c, i) ==
  IF i > 0
    THEN {[iter |-> i - 1, pc |-> "incr"]}
    ELSE {[iter |-> 0 - 1, pc |-> "incr"], [iter |-> 0, pc |-> "aborted"]}
         \cup (IF Len(c) > 0 THEN {[iter |-> 0, pc |-> "incr"]} ELSE {})

\* ---- calls --------------------------------------------------------------

Enter(o, a, p, first) ==
  /\ pc = "idle"
  /\ op' = o /\ arg' = a /\ param' = p
  /\ orig' = cont
  /\ ids' = [i \in 1..Len(cont) |-> i]
  /\ iter' = 0
  /\ pc' = first
  /\ calls' = <<>>
  /\ ret' = <<>>
  /\ UNCHANGED <<cont, prev>>

CallEach == Enter("each", {}, cont, "loop")

CallEachIndexed == Enter("each_indexed", {}, cont, "loop")

CallUntil == \E p \in Preds : Enter("until", p, cont, "loop")

CallRemoveValue == \E x \in Vals : Enter("remove_value", x, <<>>, "loop")

CallRemovePred == \E p \in Preds : Enter("remove_pred", p, <<>>, "loop")

CallFind == \E p \in Preds : Enter("find", p, <<>>, "loop")

CallPop == Enter("pop", {}, <<>>, "body")

\* the call returns to the caller
Return ==
  /\ pc = "done"
  /\ prev' = [op |-> op, arg |-> arg, ret |-> ret]
  /\ op' = "none" /\ pc' = "idle"
  /\ UNCHANGED <<cont, ids, param, orig, arg, iter, calls, ret>>

\* ---- each ---------------------------------------------------------------

\* one evaluation of the loop of each(cont, func): test, func(*iter), ++iter
EachLoop ==
  /\ pc = "loop" /\ op = "each"
  /\ IF iter = Len(param)
       THEN /\ pc' = "done"
            /\ UNCHANGED <<iter, calls>>
       ELSE /\ calls' = Append(calls, Deref(param, iter))
            /\ iter' = iter + 1
            /\ pc' = "loop"
  /\ UNCHANGED <<cont, ids, param, orig, op, arg, ret, prev>>

\* func(*iter, i) with i = std::distance(begin, iter)
IndexedArgOffByOne(c, i) == <<Deref(c, i), i + 1>>

IndexedArg(c, i) == <<Deref(c, i), i>>

EachIndexedLoop ==
  /\ pc = "loop" /\ op = "each_indexed"
  /\ IF iter = Len(param)
       THEN /\ pc' = "done"
            /\ UNCHANGED <<iter, calls>>
       ELSE /\ calls' = Append(calls, IndexedArg(param, iter))
            /\ iter' = iter + 1
            /\ pc' = "loop"
  /\ UNCHANGED <<cont, ids, param, orig, op, arg, ret, prev>>

\* ---- until --------------------------------------------------------------

UntilLoopNoShortCircuit ==
  /\ pc = "loop" /\ op = "until"
  /\ IF iter = Len(param)
       THEN /\ ret' = (\E k \in 1..Len(calls) : Holds(arg, calls[k]))
            /\ pc' = "done"
            /\ UNCHANGED <<iter, calls>>
       ELSE /\ calls' = Append(calls, Deref(param, iter))
            /\ iter' = iter + 1
            /\ pc' = "loop"
            /\ UNCHANGED ret
  /\ UNCHANGED <<cont, ids, param, orig, op, arg, prev>>

UntilLoop ==
  /\ pc = "loop" /\ op = "until"
  /\ IF iter = Len(param)
       THEN /\ ret' = FALSE
            /\ pc' = "done"
            /\ UNCHANGED <<iter, calls>>
       ELSE /\ calls' = Append(calls, Deref(param, iter))
            /\ IF Holds(arg, Deref(param, iter))
                 THEN /\ ret' = TRUE
                      /\ pc' = "done"
                      /\ UNCHANGED iter
                 ELSE /\ iter' = iter + 1
                      /\ pc' = "loop"
                      /\ UNCHANGED ret
  /\ UNCHANGED <<cont, ids, param, orig, op, arg, prev>>

\* ---- remove -------------------------------------------------------------

\* loop test and body of remove(cont, find)
RemoveValueLoop ==
  /\ pc = "loop" /\ op = "remove_value"
  /\ IF iter = Len(cont)
       THEN /\ pc' = "done"
            /\ UNCHANGED <<cont, ids, iter>>
       ELSE IF Deref(cont, iter) # arg
         THEN /\ pc' = "incr"
              /\ UNCHANGED <<cont, ids, iter>>
         ELSE /\ cont' = Erase(cont, iter)
              /\ ids' = Erase(ids, iter)
              /\ \E o \in Decrement(cont', iter) :
                   iter' = o.iter /\ pc' = o.pc
  /\ UNCHANGED <<param, orig, op, arg, calls, ret, prev>>

\* ++iter of remove(cont, find)
RemoveValueIncr ==
  /\ pc = "incr" /\ op = "remove_value"
  /\ iter' = iter + 1
  /\ pc' = "loop"
  /\ UNCHANGED <<cont, ids, param, orig, op, arg, calls, ret, prev>>

\* loop test and body of remove(cont, func)
RemovePredLoop ==
  /\ pc = "loop" /\ op = "remove_pred"
  /\ IF iter = Len(cont)
       THEN /\ pc' = "done"
            /\ UNCHANGED <<cont, ids, iter, calls>>
       ELSE /\ calls' = Append(calls, Deref(cont, iter))
            /\ IF ~ Holds(arg, Deref(cont, iter))
                 THEN /\ pc' = "incr"
                      /\ UNCHANGED <<cont, ids, iter>>
                 ELSE /\ cont' = Erase(cont, iter)
                      /\ ids' = Erase(ids, iter)
                      /\ \E o \in Decrement(cont', iter) :
                           iter' = o.iter /\ pc' = o.pc
  /\ UNCHANGED <<param, orig, op, arg, ret, prev>>

\* ++iter of remove(cont, func)
RemovePredIncr ==
  /\ pc = "incr" /\ op = "remove_pred"
  /\ iter' = iter + 1
  /\ pc' = "loop"
  /\ UNCHANGED <<cont, ids, param, orig, op, arg, calls, ret, prev>>

\* ---- find ---------------------------------------------------------------

FindLoopLastMatch ==
  /\ pc = "loop" /\ op = "find"
  /\ IF iter = Len(cont)
       THEN /\ pc' = "done"
            /\ UNCHANGED <<iter, calls, ret>>
       ELSE /\ calls' = Append(calls, Deref(cont, iter))
            /\ ret' = IF Holds(arg, Deref(cont, iter))
                        THEN <<Deref(cont, iter)>> ELSE ret
            /\ iter' = iter + 1
            /\ pc' = "loop"
  /\ UNCHANGED <<cont, ids, param, orig, op, arg, prev>>

FindLoopTake ==
  /\ pc = "loop" /\ op = "find"
  /\ IF iter = Len(cont)
       THEN /\ ret' = <<>>
            /\ pc' = "done"
            /\ UNCHANGED <<iter, calls, cont, ids>>
       ELSE /\ calls' = Append(calls, Deref(cont, iter))
            /\ IF ~ Holds(arg, Deref(cont, iter))
                 THEN /\ iter' = iter + 1
                      /\ pc' = "loop"
                      /\ UNCHANGED <<ret, cont, ids>>
                 ELSE /\ ret' = <<Deref(cont, iter)>>
                      /\ cont' = Erase(cont, iter)
                      /\ ids' = Erase(ids, iter)
                      /\ pc' = "done"
                      /\ UNCHANGED iter
  /\ UNCHANGED <<param, orig, op, arg, prev>>

FindLoop ==
  /\ pc = "loop" /\ op = "find"
  /\ IF iter = Len(cont)
       THEN /\ ret' = <<>>
            /\ pc' = "done"
            /\ UNCHANGED <<iter, calls>>
       ELSE /\ calls' = Append(calls, Deref(cont, iter))
            /\ IF ~ Holds(arg, Deref(cont, iter))
                 THEN /\ iter' = iter + 1
                      /\ pc' = "loop"
                      /\ UNCHANGED ret
                 ELSE /\ ret' = <<Deref(cont, iter)>>
                      /\ pc' = "done"
                      /\ UNCHANGED iter
  /\ UNCHANGED <<cont, ids, param, orig, op, arg, prev>>

\* ---- pop ----------------------------------------------------------------

PopBodyBack ==
  /\ pc = "body" /\ op = "pop"
  /\ IF Len(cont) = 0
       THEN /\ ret' = <<>>
            /\ UNCHANGED <<cont, ids>>
       ELSE /\ ret' = <<cont[Len(cont)]>>
            /\ cont' = SubSeq(cont, 1, Len(cont) - 1)
            /\ ids' = SubSeq(ids, 1, Len(ids) - 1)
  /\ pc' = "done"
  /\ UNCHANGED <<param, orig, op, arg, iter, calls, prev>>

PopBody ==
  /\ pc = "body" /\ op = "pop"
  /\ IF Len(cont) = 0
       THEN /\ ret' = <<>>
            /\ UNCHANGED <<cont, ids>>
       ELSE /\ ret' = <<Head(cont)>>
            /\ cont' = Tail(cont)
            /\ ids' = Tail(ids)
  /\ pc' = "done"
  /\ UNCHANGED <<param, orig, op, arg, iter, calls, prev>>

\* ---- specification ------------------------------------------------------

Init ==
  /\ cont \in Conts
  /\ ids = [i \in 1..Len(cont) |-> i]
  /\ param = <<>>
  /\ orig = cont
  /\ op = "none"
  /\ arg = {}
  /\ iter = 0
  /\ pc = "idle"
  /\ calls = <<>>
  /\ ret = <<>>
  /\ prev = [op |-> "none", arg |-> {}, ret |-> <<>>]

Next ==
  \/ CallEach \/ CallEachIndexed \/ CallUntil
  \/ CallRemoveValue \/ CallRemovePred \/ CallFind \/ CallPop
  \/ EachLoop \/ EachIndexedLoop \/ UntilLoop
  \/ RemoveValueLoop \/ RemoveValueIncr
  \/ RemovePredLoop \/ RemovePredIncr
  \/ FindLoop \/ PopBody
  \/ Return

Spec == Init /\ [][Next]_vars

\* ---- properties ---------------------------------------------------------

Removing == op \in {"remove_value", "remove_pred"}

\* the elements of s that test rejects / accepts, in order
Without(s, p) == LET Keep(v) == ~ Holds(p, v) IN SelectSeq(s, Keep)

Matches(s, p) == {k \in 1..Len(s) : Holds(p, s[k])}

\* 1-based index of the first element of s accepted by p (0 when none)
FirstMatch(s, p) ==
  IF Matches(s, p) = {} THEN 0
  ELSE CHOOSE k \in Matches(s, p) : \A j \in Matches(s, p) : k <= j

\* C1: when remove(c, x) has returned, c holds exactly the elements of the
\* original c that differ from x, in their original order.
C1_RemoveValueFilters ==
  (op = "remove_value" /\ pc = "done") => cont = Without(orig, {arg})

\* C2: when remove(c, p) has returned, c holds exactly the elements of the
\* original c that p rejects, in order, and p was evaluated exactly once on
\* each original element, left to right.
C2_RemovePredFilters ==
  (op = "remove_pred" /\ pc = "done") =>
    /\ cont = Without(orig, arg)
    /\ calls = orig

\* C3: until(c, p) returns true iff some element satisfies p, and then p was
\* evaluated exactly on the elements up to and including the first match.
C3_UntilShortCircuit ==
  (op = "until" /\ pc = "done") =>
    /\ ret = (Matches(orig, arg) # {})
    /\ ret => calls = SubSeq(orig, 1, FirstMatch(orig, arg))

C3_Witness ==
  /\ op = "until" /\ pc = "done" /\ ret = TRUE
  /\ Len(calls) = 2 /\ Len(orig) > 2
  /\ Holds(arg, orig[3])

\* C4: find(c, p) returns the element at the smallest index whose element
\* satisfies p, and an absent result iff no element satisfies p.
C4_FindFirst ==
  (op = "find" /\ pc = "done") =>
    /\ (ret = <<>>) <=> (Matches(orig, arg) = {})
    /\ ret # <<>> => ret = <<orig[FirstMatch(orig, arg)]>>

C4_Witness ==
  /\ op = "find" /\ pc = "done" /\ ret # <<>>
  /\ FirstMatch(orig, arg) < Len(orig)
  /\ \E k \in Matches(orig, arg) : orig[k] # ret[1]

\* C5: pop(c) on a non-empty c returns its first element and leaves the rest
\* in order; on an empty c it returns absent and leaves c unchanged; once a
\* pop has returned absent the next pop returns absent too.
C5_Pop ==
  (op = "pop" /\ pc = "done") =>
    /\ orig # <<>> => (ret = <<Head(orig)>> /\ cont = Tail(orig))
    /\ orig = <<>> => (ret = <<>> /\ cont = orig)
    /\ (prev.op = "pop" /\ prev.ret = <<>>) => ret = <<>>

C5_Witness ==
  /\ op = "pop" /\ pc = "done" /\ prev.op = "pop"
  /\ Len(orig) = 2 /\ orig[1] # orig[2]
  /\ ret = <<orig[1]>> /\ cont = <<orig[2]>>

\* C6: each(c, v) invokes v once per element in iteration order, the indexed
\* overload with (element at i, i) for i = 0 .. size-1; at every moment the
\* invocations made so far are those of the positions already passed.
C6_EachVisitsAll ==
  /\ op = "each" =>
       /\ calls = SubSeq(orig, 1, iter)
       /\ pc = "done" => calls = orig
  /\ op = "each_indexed" =>
       /\ calls = [k \in 1..iter |-> <<orig[k], k - 1>>]
       /\ pc = "done" => Len(calls) = Len(orig)

C6_Witness ==
  /\ op = "each_indexed" /\ pc = "done"
  /\ Len(orig) = MaxLen
  /\ calls[Len(orig)] = <<orig[Len(orig)], Len(orig) - 1>>

\* C7: a step of each, until or find never changes the caller's container;
\* every step that changes it is a step of remove or pop.
C7_Frame ==
  [][(cont' # cont) => op \in {"remove_value", "remove_pred", "pop"}]_vars

C7_Witness ==
  /\ op = "find" /\ pc = "done" /\ ret # <<>>
  /\ cont = orig /\ Len(cont) > 1

\* C8: a second remove(c, x) right after a first one erases nothing.
C8_RemoveIdempotent ==
  (op = "remove_value" /\ pc = "done"
     /\ prev.op = "remove_value" /\ prev.arg = arg) => cont = orig

\* C9: the occurrence find(c, p) returned is gone after remove(c, p), and
\* find(c, p) right after remove(c, p) returns absent.
C9_FindThenRemove ==
  /\ (op = "remove_pred" /\ pc = "done"
        /\ prev.op = "find" /\ prev.arg = arg /\ prev.ret # <<>>) =>
       \A k \in 1..Len(ids) : ids[k] # FirstMatch(orig, arg)
  /\ (op = "find" /\ pc = "done"
        /\ prev.op = "remove_pred" /\ prev.arg = arg) => ret = <<>>

\* C10: while remove runs, the position is a position of the current
\* container (begin .. end), and the call is never cut short.
C10_PositionValid ==
  Removing => (pc # "aborted" /\ iter \in 0..Len(cont))

====
